---- MODULE Spec2Model ----
(***************************************************************************)
(* Model of score.py: a corpus of text lines is scored against a weighted  *)
(* finite-state language model; every line is scored by a pool worker and  *)
(* the coordinator writes one tab-separated row per scoreable line.        *)
(*                                                                         *)
(* Text is a sequence of one-character strings.  Weights are tropical      *)
(* costs; a cost of k model units stands for k * ln(2) / M_LN2 nats, so    *)
(* that float(cost) / M_LN2 is the exact rational k / M_LN2.  Scores are   *)
(* exact rationals <<num, den>> (floating-point rounding is not modelled); *)
(* <<1, 0>> is float("inf").                                               *)
(***************************************************************************)
EXTENDS Integers, Sequences, FiniteSets, TLC

VARIABLES
    args,        \* the parsed command line: [lm, token_type, corpus]
    source,      \* the lines of the corpus file, as file iteration yields them
    pc,          \* where main is
    pool,        \* whether multiprocessing.Pool() has been created
    lm,          \* the model main loaded (NoModel before)
    token_type,  \* the token type main resolved (NoTokenType before)
    exc,         \* the exception main terminated with, "none" otherwise
    fed,         \* number of lines the pool's task feeder has queued
    taken,       \* number of queued tasks the workers have taken
    worker,      \* per worker: the task it is scoring, 0 when idle
    results,     \* per task: what the worker sent back (Pending before)
    consumed,    \* the tasks whose result main has taken from pool.imap
    out,         \* the rows written to standard output
    written,     \* history: the corpus position of each row of out
    raisedAt,    \* history: the task whose exception main re-raised, 0 if none
    fault        \* a defect of acceptor construction; kind "none" in the program

vars == <<args, source, pc, pool, lm, token_type, exc, fed, taken, worker, results,
          consumed, out, written, raisedAt, fault>>

\* ------------------------------------------------------------- bounds
MaxLines == 2
NumWorkers == 2

\* ---------------------------------------------------------- constants
\* math.log(2), in model weight units.
M_LN2 == 2
\* pynini.NO_STATE_ID
NO_STATE_ID == -1

NL == "\n"
SP == " "
TAB == "\t"
LB == "["
RB == "]"
BS == "\\"
QT == "\""

\* ------------------------------------------------------------ numbers
Abs(x) == IF x < 0 THEN -x ELSE x

RECURSIVE Gcd(_, _)
Gcd(a, b) == IF b = 0 THEN a ELSE Gcd(b, a % b)

\* The rational n / d (d # 0) in lowest terms, denominator positive.
Rat(n, d) ==
    LET g == Gcd(Abs(n), Abs(d))
        s == IF d < 0 THEN -1 ELSE 1
    IN  <<(s * n) \div g, (s * d) \div g>>

\* float("inf")
INF == <<1, 0>>

\* math.isinf
isinf(x) == x[2] = 0

\* x / k for a rational x and an integer k # 0
RatDivInt(x, k) == Rat(x[1], x[2] * k)

Min(S) == CHOOSE x \in S : \A y \in S : x <= y
Max(S) == CHOOSE x \in S : \A y \in S : x >= y

\* --------------------------------------------------------------- text
\* Characters str.rstrip() removes.
Whitespace == {SP, TAB, NL}

\* str.rstrip(): every trailing whitespace character is removed.
RECURSIVE rstrip(_)
rstrip(s) ==
    IF s = <<>> THEN <<>>
    ELSE IF s[Len(s)] \in Whitespace THEN rstrip(SubSeq(s, 1, Len(s) - 1))
    ELSE s

\* pynini.escape: a backslash goes before every bracket and backslash.
RECURSIVE escape(_)
escape(s) ==
    IF s = <<>> THEN <<>>
    ELSE IF Head(s) \in {LB, RB, BS} THEN <<BS, Head(s)>> \o escape(Tail(s))
    ELSE <<Head(s)>> \o escape(Tail(s))

\* ------------------------------------------------------ string acceptor
\* The labels pynini reads from an escaped byte / utf8 string: a backslash
\* makes the next character literal, [..] is one generated symbol, an
\* unbalanced bracket or a dangling backslash fails the compilation.
GEN == "<generated>"

RECURSIVE CloseAt(_, _)
CloseAt(s, i) ==
    IF i > Len(s) THEN 0
    ELSE IF s[i] = RB THEN i
    ELSE CloseAt(s, i + 1)

RECURSIVE BracketedLabels(_)
BracketedLabels(s) ==
    IF s = <<>> THEN [ok |-> TRUE, labels |-> <<>>]
    ELSE IF Head(s) = BS THEN
        IF Len(s) < 2 THEN [ok |-> FALSE, labels |-> <<>>]
        ELSE LET r == BracketedLabels(SubSeq(s, 3, Len(s)))
             IN  [ok |-> r.ok, labels |-> <<s[2]>> \o r.labels]
    ELSE IF Head(s) = LB THEN
        LET c == CloseAt(s, 2)
        IN  IF c = 0 THEN [ok |-> FALSE, labels |-> <<>>]
            ELSE LET r == BracketedLabels(SubSeq(s, c + 1, Len(s)))
                 IN  [ok |-> r.ok, labels |-> <<GEN>> \o r.labels]
    ELSE IF Head(s) = RB THEN [ok |-> FALSE, labels |-> <<>>]
    ELSE LET r == BracketedLabels(Tail(s))
         IN  [ok |-> r.ok, labels |-> <<Head(s)>> \o r.labels]

\* The space-separated tokens of a string (symbol-table token type).
RECURSIVE Tokens(_, _)
Tokens(s, cur) ==
    IF s = <<>> THEN (IF cur = <<>> THEN <<>> ELSE <<cur>>)
    ELSE IF Head(s) = SP THEN
        (IF cur = <<>> THEN <<>> ELSE <<cur>>) \o Tokens(Tail(s), <<>>)
    ELSE Tokens(Tail(s), Append(cur, Head(s)))

\* Every token must be a symbol of the table (the tables of the model hold
\* one-character symbols).
SymbolLabels(s, table) ==
    LET toks == Tokens(s, <<>>)
    IN  [ok |-> \A i \in 1..Len(toks) : Len(toks[i]) = 1 /\ toks[i][1] \in table,
         labels |-> [i \in 1..Len(toks) |-> toks[i][1]]]

\* pynini.accep(s, token_type=token_type): a linear, unweighted acceptor of
\* the one label sequence; ok = FALSE stands for FstStringCompilationError.
accep(s, tt) ==
    LET r == IF tt.kind = "symbols" THEN SymbolLabels(s, tt.table)
             ELSE BracketedLabels(s)
    IN  [ok |-> r.ok, labels |-> IF r.ok THEN r.labels ELSE <<>>,
         acceptor |-> TRUE, isString |-> TRUE, unweighted |-> TRUE]

\* Fst.num_states() of a string acceptor
num_states(string) == Len(string.labels) + 1

\* ------------------------------------------------------ language model
\* A model is [n, start, arcs, final]: states 1..n, arcs <<src, label,
\* weight, dst>>, final <<state, weight>>.
StateId(model, i, q) == i * model.n + (q - 1)

\* pynini.intersect(string, lm) with connect=True: the product of the
\* string's positions and the model's states, trimmed to the states that are
\* reachable from the start and reach a final state; no such state, no start.
intersect(string, model) ==
    LET N == Len(string.labels)
        fwd[i \in 0..N] ==
            IF i = 0 THEN {model.start}
            ELSE {a[4] : a \in {b \in model.arcs :
                                   b[1] \in fwd[i - 1] /\ b[2] = string.labels[i]}}
        bwd[i \in 0..N] ==
            IF i = N THEN {f[1] : f \in model.final}
            ELSE {a[1] : a \in {b \in model.arcs :
                                   b[2] = string.labels[i + 1] /\ b[4] \in bwd[i + 1]}}
        live(i) == fwd[i] \cap bwd[i]
    IN  [start  |-> IF model.start \in live(0) THEN StateId(model, 0, model.start)
                    ELSE NO_STATE_ID,
         states |-> UNION {{StateId(model, i, q) : q \in live(i)} : i \in 0..N},
         arcs   |-> UNION {{<<StateId(model, i - 1, a[1]), a[2], a[3], StateId(model, i, a[4])>> :
                               a \in {b \in model.arcs : /\ b[1] \in live(i - 1)
                                                      /\ b[2] = string.labels[i]
                                                      /\ b[4] \in live(i)}} : i \in 1..N},
         final  |-> {<<StateId(model, N, f[1]), f[2]>> : f \in {g \in model.final : g[1] \in live(N)}}]

\* Mutant of Plus: the worst path instead of the best.
PlusMax(S) == Max(S)

\* The tropical sum of a non-empty set of path weights.
Plus(S) == Min(S)

\* Mutant of shortestdistance: the distance with its sign turned, a
\* log-probability where a cost is meant.
shortestdistanceNegated(fst) ==
    LET d[s \in fst.states] ==
            Min({f[2] : f \in {g \in fst.final : g[1] = s}}
                \cup {a[3] + d[a[4]] : a \in {b \in fst.arcs : b[1] = s}})
    IN  [s \in fst.states |-> 0 - d[s]]

\* pynini.shortestdistance(fst, reverse=True): for every state the least
\* total weight of a path from it to a final state, final weight included.
shortestdistance(fst) ==
    LET d[s \in fst.states] ==
            Plus({f[2] : f \in {g \in fst.final : g[1] = s}}
                 \cup {a[3] + d[a[4]] : a \in {b \in fst.arcs : b[1] = s}})
    IN  d

\* ------------------------------------------------------------ scoring
\* What a call of _bits_per_char does: the exception it raises ("none" when
\* it returns), the value it returns, whether it reached pynini.intersect
\* and the divisor it computed (0 when it did not get that far).
Raise(e, didIntersect, n) ==
    [raised |-> e, value |-> INF, intersected |-> didIntersect, chars |-> n]
Return(v, n) == [raised |-> "none", value |-> v, intersected |-> TRUE, chars |-> n]

\* Mutant of CharCount: the state count taken for the symbol count.
CharCountStates(string) == num_states(string)

\* chars = string.num_states() - 1
CharCount(string) == num_states(string) - 1

\* Mutants of Caught: a handler for another exception class, and a bare
\* except that swallows everything.
CaughtNothing(e) == FALSE
CaughtAll(e) == TRUE

\* isinstance check of the except clause in _score
Caught(e) == e = "Error"

\* _bits_per_char(string, lm)
bits_per_char(string, model) ==
    IF ~(string.acceptor /\ string.isString /\ string.unweighted)
    THEN Raise("AssertionError", FALSE, 0)
    ELSE LET lattice == intersect(string, model)
         IN  IF lattice.start = NO_STATE_ID THEN Raise("Error", TRUE, 0)
             ELSE LET cost  == shortestdistance(lattice)[lattice.start]
                      bits  == Rat(cost, M_LN2)
                      chars == CharCount(string)
                  IN  IF chars = 0 THEN Raise("ZeroDivisionError", TRUE, chars)
                      ELSE Return(RatDivInt(bits, chars), chars)

\* Mutant of StripLine: whitespace stripped at both ends.
RECURSIVE lstrip(_)
lstrip(s) ==
    IF s = <<>> THEN <<>>
    ELSE IF Head(s) \in Whitespace THEN lstrip(Tail(s))
    ELSE s
StripBoth(line) == lstrip(rstrip(line))

\* The text _score works on: line = line.rstrip()
StripLine(line) == rstrip(line)

\* The try / except of _score around _bits_per_char(fsa, lm), and its return.
ScoreFsa(fsa, line, model) ==
    LET r == bits_per_char(fsa, model)
    IN  IF r.raised = "none"
        THEN [raised |-> "none", bits_per_char |-> r.value, line |-> line,
              intersected |-> r.intersected, chars |-> r.chars, caught |-> FALSE]
        ELSE IF Caught(r.raised)
        THEN [raised |-> "none", bits_per_char |-> INF, line |-> line,
              intersected |-> r.intersected, chars |-> r.chars, caught |-> TRUE]
        ELSE [raised |-> r.raised, bits_per_char |-> INF, line |-> line,
              intersected |-> r.intersected, chars |-> r.chars, caught |-> FALSE]

\* The acceptor _score builds for a stripped line.  A construction defect
\* (fault.kind # "none", never the case in the program itself) clears one
\* of the three properties _bits_per_char asserts, for the text fault.text.
LineFsa(line, tt) ==
    LET fsa == accep(escape(line), tt)
    IN  IF fault.kind = "none" \/ fault.text # line THEN fsa
        ELSE [fsa EXCEPT !.acceptor   = fault.kind # "transducer",
                         !.isString   = fault.kind # "notstring",
                         !.unweighted = fault.kind # "weighted"]

\* _score(line, lm, token_type)
score(line, model, tt) ==
    LET stripped == StripLine(line)
        fsa      == LineFsa(stripped, tt)
    IN  IF ~fsa.ok
        THEN [raised |-> "FstStringCompilationError", bits_per_char |-> INF,
              line |-> stripped, intersected |-> FALSE, chars |-> 0, caught |-> FALSE]
        ELSE ScoreFsa(fsa, stripped, model)

\* ------------------------------------------------------------- files
\* The model files a run can name.  LmStrict: no empty string, two paths
\* for some strings, a state ("[" read) that only "b" leaves.  LmLoop: accepts the empty string.
\* LmSigned: a weighted automaton with negative weights.
LmStrict ==
    [n |-> 3, start |-> 1,
     arcs |-> {<<1, "a", 2, 2>>, <<1, "a", 2, 1>>, <<1, "a", 5, 2>>,
               <<1, "b", 2, 2>>, <<1, SP, 1, 1>>, <<1, LB, 3, 3>>,
               <<3, "b", 1, 2>>,
               <<2, "a", 2, 2>>, <<2, "b", 2, 2>>, <<2, TAB, 1, 2>>, <<2, SP, 1, 2>>},
     final |-> {<<2, 0>>}]
LmLoop ==
    [n |-> 1, start |-> 1,
     arcs |-> {<<1, "a", 2, 1>>, <<1, "b", 3, 1>>, <<1, LB, 1, 1>>, <<1, SP, 1, 1>>},
     final |-> {<<1, 1>>}]
LmSigned ==
    [n |-> 2, start |-> 1,
     arcs |-> {<<1, "a", -3, 2>>, <<1, "b", 0, 2>>, <<2, "b", 1, 2>>, <<2, "a", 4, 1>>},
     final |-> {<<2, 0>>}]

LmFiles == [p \in {"strict.fst", "loop.fst", "signed.fst"} |->
               CASE p = "strict.fst" -> LmStrict
                 [] p = "loop.fst"   -> LmLoop
                 [] p = "signed.fst" -> LmSigned]
SymbolFiles == [p \in {"syms.txt"} |-> {"a", "b"}]
CorpusFiles == {"corpus.txt"}

LmArgs == DOMAIN LmFiles \cup {"missing.fst"}
TokenTypeArgs == {"byte", "utf8", "syms.txt", "missing.txt"}
CorpusArgs == CorpusFiles \cup {"missing.txt"}

\* The lines a corpus file can hold; a line without its terminator can only
\* be the last one of the file.
TerminatedLines ==
    {<<NL>>, <<"a", "b", NL>>, <<"a", SP, NL>>,
     <<LB, "a", NL>>, <<"a", TAB, "b", NL>>, <<SP, "a", NL>>}
LastLines == TerminatedLines \cup {<<"b">>}

Corpora ==
    UNION {{c \in [1..n -> LastLines] :
               \A i \in 1..(n - 1) : c[i] \in TerminatedLines} : n \in 0..MaxLines}

NoModel == [n |-> 0, start |-> 0, arcs |-> {}, final |-> {}]
NoTokenType == [kind |-> "unset"]
Pending == [raised |-> "pending"]
NoFault == [kind |-> "none", text |-> <<>>]

Workers == 1..NumWorkers
Tasks == 1..Len(source)

\* ------------------------------------------------------------- output
\* csv.writer(delimiter="\t"), QUOTE_MINIMAL: a field holding the delimiter,
\* the quote character or a line break is written between quotes, its quote
\* characters doubled.
RECURSIVE DoubleQuotes(_)
DoubleQuotes(s) ==
    IF s = <<>> THEN <<>>
    ELSE IF Head(s) = QT THEN <<QT, QT>> \o DoubleQuotes(Tail(s))
    ELSE <<Head(s)>> \o DoubleQuotes(Tail(s))

csvField(s) ==
    IF \E i \in 1..Len(s) : s[i] \in {TAB, QT, NL}
    THEN <<QT>> \o DoubleQuotes(s) \o <<QT>>
    ELSE s

\* tsv_writer.writerow([bits_per_char, line])
writerow(bits, line) == [score |-> bits, text |-> csvField(line)]

\* ------------------------------------------------------------- main
\* Mutant of parse_token_type: the path is not read, an unknown table is
\* taken for an empty one.
parse_token_type_unchecked(t) ==
    IF t \in {"byte", "utf8"} THEN [ok |-> TRUE, value |-> [kind |-> t]]
    ELSE [ok |-> TRUE, value |-> [kind |-> "symbols", table |-> {}]]

\* _parse_token_type(token_type)
parse_token_type(t) ==
    IF t \in {"byte", "utf8"} THEN [ok |-> TRUE, value |-> [kind |-> t]]
    ELSE IF t \in DOMAIN SymbolFiles
    THEN [ok |-> TRUE, value |-> [kind |-> "symbols", table |-> SymbolFiles[t]]]
    ELSE [ok |-> FALSE, value |-> NoTokenType]

\* Mutant of curried: a scoring call leaves the model changed (its costlier
\* arcs gone) for the calls that end after it.
curriedLeaky(line) ==
    score(line,
          IF \E i \in Tasks : results[i] # Pending
          THEN [lm EXCEPT !.arcs = {a \in lm.arcs : a[3] < 2}]
          ELSE lm,
          token_type)

\* curried = functools.partial(_score, lm=..., token_type=...)
curried(line) == score(line, lm, token_type)

\* Mutant of imapReady: results handed over as they arrive (imap_unordered).
imapUnorderedReady == {i \in 1..fed : i \notin consumed /\ results[i] # Pending}

\* pool.imap hands main the results in submission order: the next result is
\* the one of the first task main has not consumed yet, once it is there.
imapReady ==
    {i \in 1..fed : /\ i \notin consumed
                    /\ results[i] # Pending
                    /\ \A j \in 1..(i - 1) : j \in consumed}

Configs == [lm : LmArgs, token_type : TokenTypeArgs, corpus : CorpusArgs]

InitWith(f, configs) ==
    /\ args \in configs
    /\ source \in Corpora
    /\ pc = "read_lm"
    /\ pool = FALSE
    /\ lm = NoModel
    /\ token_type = NoTokenType
    /\ exc = "none"
    /\ fed = 0
    /\ taken = 0
    /\ worker = [w \in Workers |-> 0]
    /\ results = [i \in Tasks |-> Pending]
    /\ consumed = {}
    /\ out = <<>>
    /\ written = <<>>
    /\ raisedAt = 0
    /\ fault = f

Init == InitWith(NoFault, Configs)

mainVars == <<pool, fed, taken, worker, results, consumed, out, written, raisedAt>>

\* lm=pynini.Fst.read(args.lm)
ReadLm ==
    /\ pc = "read_lm"
    /\ args.lm \in DOMAIN LmFiles
    /\ lm' = LmFiles[args.lm]
    /\ pc' = "parse_tt"
    /\ UNCHANGED <<args, source, token_type, exc, mainVars, fault>>

ReadLmFails ==
    /\ pc = "read_lm"
    /\ args.lm \notin DOMAIN LmFiles
    /\ pc' = "raised"
    /\ exc' = "FstIOError"
    /\ UNCHANGED <<args, source, lm, token_type, mainVars, fault>>

\* token_type=_parse_token_type(args.token_type)
ParseTokenType ==
    /\ pc = "parse_tt"
    /\ parse_token_type(args.token_type).ok
    /\ token_type' = parse_token_type(args.token_type).value
    /\ pc' = "pool"
    /\ UNCHANGED <<args, source, lm, exc, mainVars, fault>>

ParseTokenTypeFails ==
    /\ pc = "parse_tt"
    /\ ~parse_token_type(args.token_type).ok
    /\ pc' = "raised"
    /\ exc' = "FstIOError"
    /\ UNCHANGED <<args, source, lm, token_type, mainVars, fault>>

\* csv.writer(...); multiprocessing.Pool()
CreatePool ==
    /\ pc = "pool"
    /\ pool' = TRUE
    /\ pc' = "open"
    /\ UNCHANGED <<args, source, lm, token_type, exc, fed, taken, worker, results,
                   consumed, out, written, raisedAt, fault>>

\* open(args.corpus, "r"); pool.imap(curried, source)
OpenCorpus ==
    /\ pc = "open"
    /\ args.corpus \in CorpusFiles
    /\ pc' = "imap"
    /\ UNCHANGED <<args, source, lm, token_type, exc, mainVars, fault>>

OpenCorpusFails ==
    /\ pc = "open"
    /\ args.corpus \notin CorpusFiles
    /\ pc' = "raised"
    /\ exc' = "FileNotFoundError"
    /\ UNCHANGED <<args, source, lm, token_type, mainVars, fault>>

\* The pool's task feeder reads the next line of source and queues the task.
Feed ==
    /\ pc = "imap"
    /\ fed < Len(source)
    /\ fed' = fed + 1
    /\ UNCHANGED <<args, source, pc, pool, lm, token_type, exc, taken, worker, results,
                   consumed, out, written, raisedAt, fault>>

\* An idle worker takes the oldest queued task and starts curried(line).
Take(w) ==
    /\ pc = "imap"
    /\ worker[w] = 0
    /\ taken < fed
    /\ taken' = taken + 1
    /\ worker' = [worker EXCEPT ![w] = taken + 1]
    /\ UNCHANGED <<args, source, pc, pool, lm, token_type, exc, fed, results,
                   consumed, out, written, raisedAt, fault>>

\* The worker's curried(line) call ends; its value, or the exception it
\* raised, goes back to main.
Finish(w) ==
    /\ pc = "imap"
    /\ worker[w] # 0
    /\ results' = [results EXCEPT ![worker[w]] = curried(source[worker[w]])]
    /\ worker' = [worker EXCEPT ![w] = 0]
    /\ UNCHANGED <<args, source, pc, pool, lm, token_type, exc, fed, taken,
                   consumed, out, written, raisedAt, fault>>

\* for bits_per_char, line in pool.imap(...): the result is an exception,
\* which next() re-raises in main.
ConsumeRaise ==
    /\ pc = "imap"
    /\ \E i \in imapReady :
          /\ results[i].raised # "none"
          /\ consumed' = consumed \cup {i}
          /\ pc' = "raised"
          /\ exc' = results[i].raised
          /\ raisedAt' = i
    /\ UNCHANGED <<args, source, pool, lm, token_type, fed, taken, worker, results,
                   out, written, fault>>

\* if math.isinf(bits_per_char): continue
ConsumeSkip ==
    /\ pc = "imap"
    /\ \E i \in imapReady :
          /\ results[i].raised = "none"
          /\ isinf(results[i].bits_per_char)
          /\ consumed' = consumed \cup {i}
    /\ UNCHANGED <<args, source, pc, pool, lm, token_type, exc, fed, taken, worker,
                   results, out, written, raisedAt, fault>>

\* tsv_writer.writerow([bits_per_char, line])
ConsumeWrite ==
    /\ pc = "imap"
    /\ \E i \in imapReady :
          /\ results[i].raised = "none"
          /\ ~isinf(results[i].bits_per_char)
          /\ consumed' = consumed \cup {i}
          /\ out' = Append(out, writerow(results[i].bits_per_char, results[i].line))
          /\ written' = Append(written, i)
    /\ UNCHANGED <<args, source, pc, pool, lm, token_type, exc, fed, taken, worker,
                   results, raisedAt, fault>>

\* The iterator is exhausted: every line was fed and its result consumed.
Exhausted ==
    /\ pc = "imap"
    /\ fed = Len(source)
    /\ consumed = Tasks
    /\ pc' = "done"
    /\ UNCHANGED <<args, source, lm, token_type, exc, mainVars, fault>>

Next ==
    \/ ReadLm
    \/ ReadLmFails
    \/ ParseTokenType
    \/ ParseTokenTypeFails
    \/ CreatePool
    \/ OpenCorpus
    \/ OpenCorpusFails
    \/ Feed
    \/ \E w \in Workers : Take(w)
    \/ \E w \in Workers : Finish(w)
    \/ ConsumeRaise
    \/ ConsumeSkip
    \/ ConsumeWrite
    \/ Exhausted

Spec == Init /\ [][Next]_vars

\* The same program with a defect injected into acceptor construction: the
\* acceptor built for one text lacks one of the asserted properties.
\* The assertion comes before the model is used: one model file and two
\* token types are enough here.
FaultKinds == {"weighted", "transducer", "notstring"}
FaultTexts == {<<"a">>}
FaultConfigs ==
    [lm : {"loop.fst", "missing.fst"},
     token_type : {"byte", "syms.txt", "missing.txt"},
     corpus : CorpusArgs]
InitFault ==
    \E f \in [kind : FaultKinds, text : FaultTexts] : InitWith(f, FaultConfigs)
SpecFault == InitFault /\ [][Next]_vars

\* ---------------------------------------------------------- reference
\* What the claims speak of, defined without the scorer's own steps: the
\* symbols of a text, and the cost of a symbol sequence under a model as
\* the least total weight over its accepting paths, paths listed one by one.
Range(f) == {f[x] : x \in DOMAIN f}

WithoutTerminator(line) ==
    IF line # <<>> /\ line[Len(line)] = NL THEN SubSeq(line, 1, Len(line) - 1)
    ELSE line

\* The symbols of a text: its characters, or with a symbol table its
\* space-separated tokens (Unknown for a token the table does not hold).
Unknown == "<unknown>"
Symbols(text, tt) ==
    IF tt.kind = "symbols"
    THEN LET toks == Tokens(text, <<>>)
         IN  [i \in 1..Len(toks) |->
                 IF Len(toks[i]) = 1 /\ toks[i][1] \in tt.table THEN toks[i][1]
                 ELSE Unknown]
    ELSE text

HasSymbols(text, tt) == \A i \in 1..Len(Symbols(text, tt)) : Symbols(text, tt)[i] # Unknown

RECURSIVE PathWeight(_)
PathWeight(p) == IF p = <<>> THEN 0 ELSE Head(p)[3] + PathWeight(Tail(p))

AcceptCosts(model, w) ==
    LET N == Len(w)
        ends(p) == IF N = 0 THEN model.start ELSE p[N][4]
        paths == {p \in [1..N -> model.arcs] :
                     /\ \A i \in 1..N : p[i][2] = w[i]
                     /\ N > 0 => p[1][1] = model.start
                     /\ \A i \in 1..(N - 1) : p[i][4] = p[i + 1][1]
                     /\ \E f \in model.final : f[1] = ends(p)}
    IN  {PathWeight(p) + f[2] : <<p, f>> \in {q \in paths \X model.final : q[2][1] = ends(q[1])}}

ResolvedTokenTypes == {parse_token_type(t).value : t \in {"byte", "utf8", "syms.txt"}}
ReferenceStrings ==
    {Symbols(rstrip(l), tt) : <<l, tt>> \in LastLines \X ResolvedTokenTypes}
    \cup {Symbols(WithoutTerminator(l), tt) : <<l, tt>> \in LastLines \X ResolvedTokenTypes}
ReferenceCosts ==
    [m \in Range(LmFiles) |-> [w \in ReferenceStrings |-> AcceptCosts(m, w)]]

Scored(i) == results[i] # Pending
Text(i) == rstrip(source[i])
Compiles(i) == HasSymbols(Text(i), token_type)
CostsOf(i) == ReferenceCosts[lm][Symbols(Text(i), token_type)]
Accepted(i) == Compiles(i) /\ CostsOf(i) # {}
CompositionFails(i) == Compiles(i) /\ CostsOf(i) = {}
ModelCost(i) == Min(CostsOf(i))
Faulty(i) == fault.kind # "none" /\ fault.text = Text(i)
Rows(i) == {k \in 1..Len(written) : written[k] = i}
NonNegative(model) ==
    /\ \A a \in model.arcs : a[3] >= 0
    /\ \A f \in model.final : f[2] >= 0

\* ------------------------------------------------------------- claims

\* C1 (as claimed): an empty line (nothing left after the strip) never
\* crashes: its _score call returns, main does not abort on it, and it gets
\* no row; also when the model accepts the empty string.
C1_EmptyLineNeverCrashes ==
    \A i \in Tasks :
        (Scored(i) /\ Text(i) = <<>>) =>
            /\ results[i].raised = "none"
            /\ raisedAt # i
            /\ Rows(i) = {}

\* C2: a line whose intersection with the model is empty never makes _score
\* raise: the Error is caught, the score is infinite, the line gets no row
\* and main does not stop on it.
C2_CompositionFailureSkipped ==
    \A i \in Tasks :
        (Scored(i) /\ CompositionFails(i)) =>
            /\ results[i].raised = "none"
            /\ results[i].caught
            /\ isinf(results[i].bits_per_char)
            /\ Rows(i) = {}
            /\ raisedAt # i
            /\ (i \in consumed => pc \in {"imap", "done"} \/ raisedAt > i)

\* C2 witness: a line that failed composition was consumed and skipped, and
\* a later line got its row.
C2_Witness ==
    \E i \in Tasks : \E j \in Tasks :
        /\ i < j
        /\ i \in consumed
        /\ CompositionFails(i)
        /\ Rows(j) # {}

\* C3: when the run ends normally on a corpus of n lines of which k fail
\* composition, exactly n - k rows were written, one per surviving line, in
\* corpus order; at every moment of every interleaving the rows written so
\* far are in corpus order, one per line at most.
C3_RowsInCorpusOrder ==
    /\ Len(out) = Len(written)
    /\ \A a \in 1..Len(written) : \A b \in 1..Len(written) :
          a < b => written[a] < written[b]
    /\ pc = "done" =>
          /\ Len(out) = Len(source) - Cardinality({i \in Tasks : CompositionFails(i)})
          /\ \A i \in Tasks : ~CompositionFails(i) => Cardinality(Rows(i)) = 1
          /\ \A i \in Tasks : CompositionFails(i) => Rows(i) = {}

\* C3 witness: a finished run over a full corpus, one line dropped, the
\* others written.
C3_Witness ==
    /\ pc = "done"
    /\ Len(source) = MaxLines
    /\ Cardinality({i \in Tasks : CompositionFails(i)}) = 1
    /\ Len(out) = MaxLines - 1

\* C4: for a line of N >= 1 symbols the model accepts with least total path
\* cost C, the score returned is C / (N * ln 2), and the divisor the scorer
\* used is N.
C4_BitsPerChar ==
    \A i \in Tasks :
        (Scored(i) /\ Accepted(i) /\ Len(Symbols(Text(i), token_type)) >= 1) =>
            /\ results[i].raised = "none"
            /\ results[i].chars = Len(Symbols(Text(i), token_type))
            /\ results[i].bits_per_char =
                  Rat(ModelCost(i), Len(Symbols(Text(i), token_type)) * M_LN2)

\* C4 witness: a scored line of two symbols that has two accepting paths of
\* different cost.
C4_Witness ==
    \E i \in Tasks :
        /\ Scored(i)
        /\ Accepted(i)
        /\ Len(Symbols(Text(i), token_type)) = 2
        /\ Cardinality(CostsOf(i)) > 1

\* C5 (as claimed): for every model that can be loaded, the score returned
\* for an accepted line, and every score written, is finite and not negative.
C5_FiniteNonNegativeAnyModel ==
    /\ \A i \in Tasks :
          (Scored(i) /\ Accepted(i) /\ results[i].raised = "none") =>
              /\ ~isinf(results[i].bits_per_char)
              /\ results[i].bits_per_char[1] >= 0
    /\ \A k \in 1..Len(out) : ~isinf(out[k].score) /\ out[k].score[1] >= 0

\* C5 (amended): for every model whose arc and final weights are all
\* non-negative, the score returned for an accepted line, and every score
\* written, is finite and not negative.
C5_FiniteNonNegative ==
    NonNegative(lm) =>
        /\ \A i \in Tasks :
              (Scored(i) /\ Accepted(i) /\ results[i].raised = "none") =>
                  /\ ~isinf(results[i].bits_per_char)
                  /\ results[i].bits_per_char[1] >= 0
        /\ \A k \in 1..Len(out) : ~isinf(out[k].score) /\ out[k].score[1] >= 0

\* C5 witness: a row with a positive score, written under a model without
\* negative weights.
C5_Witness ==
    /\ pc \in {"imap", "done"}
    /\ NonNegative(lm)
    /\ \E k \in 1..Len(out) : out[k].score[1] > 0

IsRightStripped(t, line) ==
    \E n \in 0..Len(line) :
        /\ t = SubSeq(line, 1, n)
        /\ \A k \in (n + 1)..Len(line) : line[k] \in Whitespace
        /\ n > 0 => line[n] \notin Whitespace

\* C7 (as claimed): the text _score returns, and the second field of the
\* row (in its CSV encoding), is the line as read less its terminator and
\* nothing else, and the symbol count the score uses is that text's.
C7_TextIsLineLessTerminator ==
    /\ \A i \in Tasks :
          (Scored(i) /\ results[i].raised = "none") =>
              /\ results[i].line = WithoutTerminator(source[i])
              /\ ~results[i].caught =>
                    results[i].chars =
                        Len(Symbols(WithoutTerminator(source[i]), token_type))
    /\ \A k \in 1..Len(out) :
          out[k].text = csvField(WithoutTerminator(source[written[k]]))

\* C7 (amended): the text _score returns, and the second field of the row
\* (in its CSV encoding), is the line as read less all its trailing
\* whitespace, terminator included, and nothing else; the symbol count the
\* score uses is that text's.
C7_TextIsLineRightStripped ==
    /\ \A i \in Tasks :
          (Scored(i) /\ results[i].raised = "none") =>
              /\ IsRightStripped(results[i].line, source[i])
              /\ ~results[i].caught =>
                    results[i].chars = Len(Symbols(results[i].line, token_type))
    /\ \A k \in 1..Len(out) :
          LET t == results[written[k]].line
          IN  /\ IsRightStripped(t, source[written[k]])
              /\ out[k].text = csvField(t)

\* C7 witness: a row written for a line that begins with a space and one
\* for a line that ends with one.
C7_Witness ==
    /\ Len(out) = 2
    /\ source[written[1]][1] = SP
    /\ Len(source[written[2]]) >= 2
    /\ source[written[2]][Len(source[written[2]]) - 1] = SP

BadLmArg == args.lm \notin DOMAIN LmFiles
BadTokenTypeArg == args.token_type \notin ({"byte", "utf8"} \cup DOMAIN SymbolFiles)
AbortedAtConfiguration ==
    /\ pc = "raised"
    /\ exc = "FstIOError"
    /\ ~pool
    /\ fed = 0
    /\ \A i \in Tasks : results[i] = Pending
    /\ out = <<>>

\* C8: an unreadable model file, or a token type that is neither "byte" nor
\* "utf8" nor a readable symbol table, ends main with that error before the
\* pool exists, before any line is scored and before any row is written.
C8_ConfigurationErrorFatal ==
    /\ (BadLmArg /\ pc # "read_lm") => AbortedAtConfiguration
    /\ (~BadLmArg /\ BadTokenTypeArg /\ pc \notin {"read_lm", "parse_tt"}) =>
           AbortedAtConfiguration

\* C8 witness: main stopped on a bad token type, with a model that loaded
\* and a corpus that has lines.
C8_Witness ==
    /\ pc = "raised"
    /\ ~BadLmArg
    /\ BadTokenTypeArg
    /\ args.corpus \in CorpusFiles
    /\ Len(source) > 0

\* The end-to-end example: a byte token type, the one-line corpus "ab", a
\* model under which "ab" costs ln(4) = 2 * ln(2), the run finished.
ExampleRun ==
    /\ pc = "done"
    /\ token_type.kind = "byte"
    /\ source = << <<"a", "b", NL>> >>
    /\ ReferenceCosts[lm][<<"a", "b">>] # {}
    /\ Min(ReferenceCosts[lm][<<"a", "b">>]) = 2 * M_LN2

\* C9 (as claimed): in the example the one row written is 2.0, tab, ab.
C9_ExampleRowTwoBits ==
    ExampleRun => out = << [score |-> Rat(2, 1), text |-> <<"a", "b">>] >>

\* C9 (amended): in the example the one row written is 1.0, tab, ab.
C9_ExampleRowOneBit ==
    ExampleRun => out = << [score |-> Rat(1, 1), text |-> <<"a", "b">>] >>

\* C9 witness: the example run, its row written.
C9_Witness == ExampleRun /\ Len(out) = 1

\* C10: an acceptor that is not an unweighted single-string acceptor fails
\* the assertion before any intersection; the AssertionError is not caught
\* in _score, main re-raises it and stops, and neither that line nor a later
\* one gets a row.
C10_AssertionAborts ==
    \A i \in Tasks :
        (Scored(i) /\ Faulty(i) /\ Compiles(i)) =>
            /\ results[i].raised = "AssertionError"
            /\ ~results[i].intersected
            /\ ~results[i].caught
            /\ Rows(i) = {}
            /\ i \in consumed =>
                  /\ pc = "raised"
                  /\ exc = "AssertionError"
                  /\ raisedAt = i
                  /\ \A k \in 1..Len(written) : written[k] < i

\* C10 witness: main stopped on the assertion of the second line, the first
\* line's row already written.
C10_Witness ==
    /\ raisedAt = 2
    /\ exc = "AssertionError"
    /\ Faulty(2)
    /\ written = <<1>>

====
